---- MODULE Spec2Model ----
(***************************************************************************)
(* Model of the line-editing core of ragout_assistant (src/src/input.rs):  *)
(* the Input buffer with its cursor, and the History of submitted lines    *)
(* with its recall cursor and draft slot.                                  *)
(*                                                                         *)
(* Rust indices are 0-based; a Vec<char> is modelled as a TLA+ sequence,   *)
(* so v[i] in the source is vals[i + 1] here.  A panic of the source (an   *)
(* index out of range, a usize underflow under debug assertions, unwrap on *)
(* None) sets the panic field of an operation's result.                    *)
(***************************************************************************)
EXTENDS Integers, Sequences, FiniteSets, TLC

\* ---------------------------------------------------------------- bounds
\* longest Input line the editing specification types
MaxLen == 2
\* number of History entries the submit path of SpecInput may store
MaxSubmit == 1
\* number of History entries SpecHistory may store
MaxHist == 3
\* longest Input line of SpecEdit, which carries no History
MaxBuf == 4

\* ------------------------------------------------------------ characters
\* the characters typed into the Input: a word character, the space, and a
\* stopper that is not the space
Chars == {"a", " ", "-"}

STOPPERS == {"/", " ", "-", "_", ",", "\"", "'", ";", ":", "."}

\* code point of a character, all below 128 (char::is_ascii)
CodePoint(c) ==
    CASE c = "a" -> 97
      [] c = "b" -> 98
      [] c = " " -> 32
      [] c = "-" -> 45
      [] c = "\t" -> 9

\* the bytes one character contributes to a String: an ASCII character is
\* the single byte of its code point
encode_char(c) == <<CodePoint(c)>>

\* Iterator<char>::collect::<String>(), the String given as its bytes
RECURSIVE collect_String(_)
collect_String(vals) ==
    IF vals = <<>> THEN <<>>
    ELSE encode_char(Head(vals)) \o collect_String(Tail(vals))

\* Option<Vec<char>>: None is the empty tuple, Some(v) the tuple <<v>>
None == <<>>
Some(v) == <<v>>
is_none(o) == o = <<>>
unwrap(o) == o[1]

\* ------------------------------------------------------- Vec primitives
\* Vec::insert(i, c), defined for i <= len
VecInsert(vals, i, c) ==
    SubSeq(vals, 1, i) \o <<c>> \o SubSeq(vals, i + 1, Len(vals))

\* Vec::remove(i), defined for i < len
VecRemove(vals, i) ==
    SubSeq(vals, 1, i) \o SubSeq(vals, i + 2, Len(vals))

\* Vec::pop(), which leaves an empty Vec empty
VecPop(vals) ==
    IF vals = <<>> THEN <<>> ELSE SubSeq(vals, 1, Len(vals) - 1)

\* the result of an Input operation
InputResult(vals, cur, p) == [values |-> vals, cursor |-> cur, panic |-> p]

\* ----------------------------------------------------- Input operations
\* put_char that always pushes at the end
put_char_append(vals, cur, c) ==
    InputResult(Append(vals, c), cur + 1, FALSE)

put_char(vals, cur, c) ==
    IF vals = <<>>
    THEN InputResult(Append(vals, c), cur + 1, FALSE)
    ELSE IF cur = Len(vals)
         THEN InputResult(Append(vals, c), cur + 1, FALSE)
         ELSE IF cur > Len(vals)
              THEN InputResult(vals, cur, TRUE)
              ELSE InputResult(VecInsert(vals, cur, c), cur + 1, FALSE)

\* backspace removing the character at the cursor, not the one before it
backspace_at_cursor(vals, cur) ==
    IF vals = <<>> \/ cur = 0
    THEN InputResult(vals, cur, FALSE)
    ELSE IF cur >= Len(vals)
         THEN InputResult(vals, cur, TRUE)
         ELSE InputResult(VecRemove(vals, cur), cur - 1, FALSE)

backspace(vals, cur) ==
    IF vals = <<>> \/ cur = 0
    THEN InputResult(vals, cur, FALSE)
    ELSE IF cur > 0
         THEN IF cur - 1 >= Len(vals)
              THEN InputResult(vals, cur, TRUE)
              ELSE InputResult(VecRemove(vals, cur - 1), cur - 1, FALSE)
         ELSE InputResult(vals, cur, FALSE)

to_the_right(vals, cur) ==
    IF vals = <<>> \/ cur = Len(vals)
    THEN InputResult(vals, cur, FALSE)
    ELSE InputResult(vals, cur + 1, FALSE)

to_the_left(vals, cur) ==
    IF vals = <<>> \/ cur = 0
    THEN InputResult(vals, cur, FALSE)
    ELSE InputResult(vals, cur - 1, FALSE)

\* len - cursor is a usize subtraction
to_end(vals, cur) ==
    IF cur > Len(vals)
    THEN InputResult(vals, cur, TRUE)
    ELSE IF Len(vals) - cur > 0
         THEN InputResult(vals, Len(vals), FALSE)
         ELSE InputResult(vals, cur, FALSE)

to_home(vals, cur) ==
    IF cur = 0
    THEN InputResult(vals, cur, FALSE)
    ELSE InputResult(vals, 0, FALSE)

clear_line(vals, cur) == InputResult(<<>>, 0, FALSE)

\* n iterations of values.pop()
RECURSIVE pop_loop(_, _)
pop_loop(vals, n) ==
    IF n <= 0 THEN vals ELSE pop_loop(VecPop(vals), n - 1)

\* clear_right over the range cursor + 1 .. len
clear_right_keep_one(vals, cur) ==
    InputResult(pop_loop(vals, Len(vals) - cur - 1), cur, FALSE)

clear_right(vals, cur) ==
    InputResult(pop_loop(vals, Len(vals) - cur), cur, FALSE)

\* n iterations of values.remove(0), which panics on an empty Vec
RECURSIVE remove_loop(_, _)
remove_loop(vals, n) ==
    IF n <= 0 THEN [values |-> vals, panic |-> FALSE]
    ELSE IF vals = <<>> THEN [values |-> vals, panic |-> TRUE]
    ELSE remove_loop(VecRemove(vals, 0), n - 1)

\* clear_left popping from the end of values
clear_left_from_end(vals, cur) ==
    InputResult(pop_loop(vals, cur), 0, FALSE)

clear_left(vals, cur) ==
    LET r == remove_loop(vals, cur)
    IN  IF r.panic
        THEN InputResult(r.values, cur, TRUE)
        ELSE InputResult(r.values, 0, FALSE)

\* while cursor + 1 < len && values[cursor + 1] == ' ' { cursor += 1 }
RECURSIVE right_space_loop(_, _)
right_space_loop(vals, cur) ==
    IF cur + 1 < Len(vals) /\ vals[cur + 2] = " "
    THEN right_space_loop(vals, cur + 1)
    ELSE cur

\* while cursor + 1 < len && !STOPPERS.contains(values[cursor + 1]) { cursor += 1 }
RECURSIVE right_word_loop(_, _)
right_word_loop(vals, cur) ==
    IF cur + 1 < Len(vals) /\ vals[cur + 2] \notin STOPPERS
    THEN right_word_loop(vals, cur + 1)
    ELSE cur

\* to_right_jump without the step that follows its word loop
to_right_jump_no_step(vals, cur) ==
    IF cur = Len(vals)
    THEN InputResult(vals, cur, FALSE)
    ELSE LET idx == IF cur + 1 < Len(vals) THEN cur + 1 ELSE cur
         IN  IF idx >= Len(vals)
             THEN InputResult(vals, cur, TRUE)
             ELSE IF vals[idx + 1] = " "
                  THEN InputResult(vals, right_space_loop(vals, cur), FALSE)
                  ELSE InputResult(vals, right_word_loop(vals, cur), FALSE)

to_right_jump(vals, cur) ==
    IF cur = Len(vals)
    THEN InputResult(vals, cur, FALSE)
    ELSE LET idx == IF cur + 1 < Len(vals) THEN cur + 1 ELSE cur
         IN  IF idx >= Len(vals)
             THEN InputResult(vals, cur, TRUE)
             ELSE IF vals[idx + 1] = " "
                  THEN InputResult(vals, right_space_loop(vals, cur), FALSE)
                  ELSE InputResult(vals, right_word_loop(vals, cur) + 1, FALSE)

\* while cursor > 0 && values[cursor - 1] == ' ' { cursor -= 1 }
\* the result is the cursor, or -1 when values[cursor - 1] is out of range
RECURSIVE left_space_loop(_, _)
left_space_loop(vals, cur) ==
    IF cur > 0
    THEN IF cur - 1 >= Len(vals) THEN -1
         ELSE IF vals[cur] = " " THEN left_space_loop(vals, cur - 1)
         ELSE cur
    ELSE cur

\* left_word_loop that stops at a space only
RECURSIVE left_word_loop_to_space(_, _)
left_word_loop_to_space(vals, cur) ==
    IF cur > 1
    THEN IF cur - 1 >= Len(vals) THEN -1
         ELSE IF vals[cur] # " "
              THEN left_word_loop_to_space(vals, cur - 1)
         ELSE cur
    ELSE cur

\* left_word_loop with the loop bound cursor > 0
RECURSIVE left_word_loop_from_zero(_, _)
left_word_loop_from_zero(vals, cur) ==
    IF cur > 0
    THEN IF cur - 1 >= Len(vals) THEN -1
         ELSE IF vals[cur] \notin STOPPERS
              THEN left_word_loop_from_zero(vals, cur - 1)
         ELSE cur
    ELSE cur

\* while cursor > 1 && !STOPPERS.contains(values[cursor - 1]) { cursor -= 1 }
RECURSIVE left_word_loop(_, _)
left_word_loop(vals, cur) ==
    IF cur > 1
    THEN IF cur - 1 >= Len(vals) THEN -1
         ELSE IF vals[cur] \notin STOPPERS THEN left_word_loop(vals, cur - 1)
         ELSE cur
    ELSE cur

to_left_jump(vals, cur) ==
    IF cur = 0
    THEN InputResult(vals, cur, FALSE)
    ELSE IF cur - 1 >= Len(vals)
         THEN InputResult(vals, cur, TRUE)
         ELSE IF vals[cur] = " "
              THEN LET c == left_space_loop(vals, cur)
                   IN  IF c < 0 THEN InputResult(vals, cur, TRUE)
                       ELSE InputResult(vals, c, FALSE)
              ELSE LET c == left_word_loop(vals, cur)
                   IN  IF c < 1 THEN InputResult(vals, cur, TRUE)
                       ELSE InputResult(vals, c - 1, FALSE)

\* --------------------------------------------------- History operations
\* the result of a History operation; value is the caller's buffer
HistoryResult(hv, hc, t, val, r, p) ==
    [values |-> hv, cursor |-> hc, temp |-> t, value |-> val,
     ret |-> r, panic |-> p]

\* Vec::contains
contains(hv, val) == \E i \in 1..Len(hv) : hv[i] = val

\* value.iter().filter(|c| **c != ' ').count()
RECURSIVE count_non_space(_)
count_non_space(val) ==
    IF val = <<>> THEN 0
    ELSE (IF Head(val) # " " THEN 1 ELSE 0) + count_non_space(Tail(val))

\* prev saving the draft only when no draft is saved and the cursor is live
prev_save_and(hv, hc, t, val) ==
    IF hc = 0
    THEN HistoryResult(hv, hc, t, val, "false", FALSE)
    ELSE LET t1 == IF is_none(t) /\ hc = Len(hv) THEN Some(val) ELSE t
         IN  IF hc - 1 >= Len(hv)
             THEN HistoryResult(hv, hc, t1, val, "none", TRUE)
             ELSE HistoryResult(hv, hc - 1, t1, hv[hc], "true", FALSE)

\* prev saving the draft before its boundary test
prev_save_first(hv, hc, t, val) ==
    LET t1 == IF is_none(t) \/ hc = Len(hv) THEN Some(val) ELSE t
    IN  IF hc = 0
        THEN HistoryResult(hv, hc, t1, val, "false", FALSE)
        ELSE IF hc - 1 >= Len(hv)
             THEN HistoryResult(hv, hc, t1, val, "none", TRUE)
             ELSE HistoryResult(hv, hc - 1, t1, hv[hc], "true", FALSE)

prev(hv, hc, t, val) ==
    IF hc = 0
    THEN HistoryResult(hv, hc, t, val, "false", FALSE)
    ELSE LET t1 == IF is_none(t) \/ hc = Len(hv) THEN Some(val) ELSE t
         IN  IF hc - 1 >= Len(hv)
             THEN HistoryResult(hv, hc, t1, val, "none", TRUE)
             ELSE HistoryResult(hv, hc - 1, t1, hv[hc], "true", FALSE)

\* next handing the draft back when it is called at the live position
next_restore_at_live(hv, hc, t, val) ==
    IF hc = Len(hv)
    THEN HistoryResult(hv, hc, t, IF is_none(t) THEN val ELSE unwrap(t),
                       "false", FALSE)
    ELSE IF hc + 1 = Len(hv)
         THEN IF is_none(t)
              THEN HistoryResult(hv, hc, t, val, "none", TRUE)
              ELSE HistoryResult(hv, hc + 1, t, unwrap(t), "true", FALSE)
         ELSE IF hc + 1 >= Len(hv)
              THEN HistoryResult(hv, hc, t, val, "none", TRUE)
              ELSE HistoryResult(hv, hc + 1, t, hv[hc + 2], "true", FALSE)

\* next without its boundary test, the draft taken at or past the last entry
next_unguarded(hv, hc, t, val) ==
    IF hc + 1 >= Len(hv)
    THEN IF is_none(t)
         THEN HistoryResult(hv, hc, t, val, "none", TRUE)
         ELSE HistoryResult(hv, hc + 1, t, unwrap(t), "true", FALSE)
    ELSE HistoryResult(hv, hc + 1, t, hv[hc + 2], "true", FALSE)

\* next reading the entry at the cursor, not the one after it
next_same_entry(hv, hc, t, val) ==
    IF hc = Len(hv)
    THEN HistoryResult(hv, hc, t, val, "false", FALSE)
    ELSE IF hc + 1 = Len(hv)
         THEN IF is_none(t)
              THEN HistoryResult(hv, hc, t, val, "none", TRUE)
              ELSE HistoryResult(hv, hc + 1, t, unwrap(t), "true", FALSE)
         ELSE HistoryResult(hv, hc + 1, t, hv[hc + 1], "true", FALSE)

next(hv, hc, t, val) ==
    IF hc = Len(hv)
    THEN HistoryResult(hv, hc, t, val, "false", FALSE)
    ELSE IF hc + 1 = Len(hv)
         THEN IF is_none(t)
              THEN HistoryResult(hv, hc, t, val, "none", TRUE)
              ELSE HistoryResult(hv, hc + 1, t, unwrap(t), "true", FALSE)
         ELSE IF hc + 1 >= Len(hv)
              THEN HistoryResult(hv, hc, t, val, "none", TRUE)
              ELSE HistoryResult(hv, hc + 1, t, hv[hc + 2], "true", FALSE)

\* push that leaves the cursor where it is
push_keep_cursor(hv, hc, t, val) ==
    LET hv1 == IF count_non_space(val) > 0 /\ ~contains(hv, val)
               THEN Append(hv, val)
               ELSE hv
    IN  HistoryResult(hv1, hc, None, val, "none", FALSE)

\* push that resets the draft and the cursor only when it adds the entry
push_reset_if_added(hv, hc, t, val) ==
    IF count_non_space(val) > 0 /\ ~contains(hv, val)
    THEN HistoryResult(Append(hv, val), Len(hv) + 1, None, val, "none", FALSE)
    ELSE HistoryResult(hv, hc, t, val, "none", FALSE)

\* push without the test for an entry already present
push_no_dedup(hv, hc, t, val) ==
    LET hv1 == IF count_non_space(val) > 0 THEN Append(hv, val) ELSE hv
    IN  HistoryResult(hv1, Len(hv1), None, val, "none", FALSE)

\* push that rejects the empty line only
push_non_empty(hv, hc, t, val) ==
    LET hv1 == IF Len(val) > 0 /\ ~contains(hv, val)
               THEN Append(hv, val)
               ELSE hv
    IN  HistoryResult(hv1, Len(hv1), None, val, "none", FALSE)

\* push that moves an entry already present to the end
push_move_to_end(hv, hc, t, val) ==
    LET rest == SelectSeq(hv, LAMBDA e : e # val)
        hv1 == IF count_non_space(val) > 0 THEN Append(rest, val) ELSE hv
    IN  HistoryResult(hv1, Len(hv1), None, val, "none", FALSE)

push(hv, hc, t, val) ==
    LET hv1 == IF count_non_space(val) > 0 /\ ~contains(hv, val)
               THEN Append(hv, val)
               ELSE hv
    IN  HistoryResult(hv1, Len(hv1), None, val, "none", FALSE)

\* cr_lf draining values before it pushes them
cr_lf_drain_first(vals, cur, hv, hc, t) ==
    LET h == push(hv, hc, t, <<>>)
    IN  [values |-> <<>>, cursor |-> 0, user_input |-> collect_String(vals),
         hvalues |-> h.values, hcursor |-> h.cursor, temp |-> h.temp,
         panic |-> h.panic]

\* Input::cr_lf: the push, then the drain of values into user_input
cr_lf(vals, cur, hv, hc, t) ==
    LET h == push(hv, hc, t, vals)
    IN  [values |-> <<>>, cursor |-> 0, user_input |-> collect_String(vals),
         hvalues |-> h.values, hcursor |-> h.cursor, temp |-> h.temp,
         panic |-> h.panic]

\* ------------------------------------------------------------------ state
VARIABLES
    values,      \* Input.values
    cursor,      \* Input.cursor
    user_input,  \* the String cr_lf binds the submitted line to, as bytes
    hvalues,     \* History.values
    hcursor,     \* History.cursor
    temp,        \* History.temp
    value,       \* the buffer the caller hands to History::prev and next
    ret,         \* what the last History call returned
    called,      \* the last History call
    panicked     \* a panic has unwound the program

vars == <<values, cursor, user_input, hvalues, hcursor, temp, value, ret,
          called, panicked>>

inputVars == <<values, cursor>>
historyVars == <<hvalues, hcursor, temp>>
callVars == <<value, ret, called>>

\* Input::new, History::new and the empty String of init
Init ==
    /\ values = <<>>
    /\ cursor = 0
    /\ user_input = <<>>
    /\ hvalues = <<>>
    /\ hcursor = 0
    /\ temp = None
    /\ value = <<>>
    /\ ret = "none"
    /\ called = "new"
    /\ panicked = FALSE

\* an Input operation that touches only values and cursor
InputStep(r) ==
    /\ values' = r.values
    /\ cursor' = r.cursor
    /\ panicked' = r.panic
    /\ UNCHANGED <<user_input, historyVars, callVars>>

PutChar ==
    /\ ~panicked
    /\ Len(values) < MaxLen
    /\ \E c \in Chars : InputStep(put_char(values, cursor, c))

Backspace == ~panicked /\ InputStep(backspace(values, cursor))

ToTheRight == ~panicked /\ InputStep(to_the_right(values, cursor))

ToTheLeft == ~panicked /\ InputStep(to_the_left(values, cursor))

ToEnd == ~panicked /\ InputStep(to_end(values, cursor))

ToHome == ~panicked /\ InputStep(to_home(values, cursor))

ClearLine == ~panicked /\ InputStep(clear_line(values, cursor))

ClearRight == ~panicked /\ InputStep(clear_right(values, cursor))

ClearLeft == ~panicked /\ InputStep(clear_left(values, cursor))

ToRightJump == ~panicked /\ InputStep(to_right_jump(values, cursor))

ToLeftJump == ~panicked /\ InputStep(to_left_jump(values, cursor))

CrLf ==
    /\ ~panicked
    /\ Len(hvalues) < MaxSubmit
    /\ LET r == cr_lf(values, cursor, hvalues, hcursor, temp)
       IN  /\ values' = r.values
           /\ cursor' = r.cursor
           /\ user_input' = r.user_input
           /\ hvalues' = r.hvalues
           /\ hcursor' = r.hcursor
           /\ temp' = r.temp
           /\ panicked' = r.panic
    /\ UNCHANGED callVars

NextInput ==
    \/ PutChar
    \/ Backspace
    \/ ToTheRight
    \/ ToTheLeft
    \/ ToEnd
    \/ ToHome
    \/ ClearLine
    \/ ClearRight
    \/ ClearLeft
    \/ ToRightJump
    \/ ToLeftJump
    \/ CrLf

\* the editing session: every Input operation, cr_lf pushing to the History
SpecInput == Init /\ [][NextInput]_vars

\* ---------------------------------------------------------------- History
\* the lines a caller submits or holds in its buffer: the empty line, runs
\* of spaces, a tab, and lines with a letter
Cands ==
    { <<>>, <<" ">>, <<" ", " ">>, <<"\t">>,
      <<"a">>, <<"a", " ">>, <<"b">> }

\* the caller rewrites its buffer between two History calls
EditValue ==
    /\ ~panicked
    /\ \E v \in Cands : value' = v
    /\ ret' = "none"
    /\ called' = "edit"
    /\ UNCHANGED <<inputVars, user_input, historyVars, panicked>>

\* a History operation on the caller's buffer
HistoryStep(r, name) ==
    /\ hvalues' = r.values
    /\ hcursor' = r.cursor
    /\ temp' = r.temp
    /\ value' = r.value
    /\ ret' = r.ret
    /\ called' = name
    /\ panicked' = r.panic
    /\ UNCHANGED <<inputVars, user_input>>

Prev == ~panicked /\ HistoryStep(prev(hvalues, hcursor, temp, value), "prev")

Next == ~panicked /\ HistoryStep(next(hvalues, hcursor, temp, value), "next")

\* the caller pushes a copy of its buffer, as cr_lf does
Push ==
    /\ ~panicked
    /\ Len(hvalues) < MaxHist
    /\ HistoryStep(push(hvalues, hcursor, temp, value), "push")

NextHistory ==
    \/ EditValue
    \/ Prev
    \/ Next
    \/ Push

\* the recall session: push, prev and next in any order on any buffer
SpecHistory == Init /\ [][NextHistory]_vars

\* ------------------------------------------------------------------ edit
\* an Input operation, the operation recorded in called
EditStep(r, name) ==
    /\ values' = r.values
    /\ cursor' = r.cursor
    /\ panicked' = r.panic
    /\ called' = name
    /\ UNCHANGED <<user_input, historyVars, value, ret>>

PutCharCall ==
    /\ ~panicked
    /\ Len(values) < MaxBuf
    /\ \E c \in Chars : EditStep(put_char(values, cursor, c), "put_char")

BackspaceCall ==
    ~panicked /\ EditStep(backspace(values, cursor), "backspace")

ToTheRightCall ==
    ~panicked /\ EditStep(to_the_right(values, cursor), "to_the_right")

ToTheLeftCall ==
    ~panicked /\ EditStep(to_the_left(values, cursor), "to_the_left")

ToEndCall == ~panicked /\ EditStep(to_end(values, cursor), "to_end")

ToHomeCall == ~panicked /\ EditStep(to_home(values, cursor), "to_home")

ClearLineCall ==
    ~panicked /\ EditStep(clear_line(values, cursor), "clear_line")

ClearRightCall ==
    ~panicked /\ EditStep(clear_right(values, cursor), "clear_right")

ClearLeftCall ==
    ~panicked /\ EditStep(clear_left(values, cursor), "clear_left")

ToRightJumpCall ==
    ~panicked /\ EditStep(to_right_jump(values, cursor), "to_right_jump")

ToLeftJumpCall ==
    ~panicked /\ EditStep(to_left_jump(values, cursor), "to_left_jump")

NextEdit ==
    \/ PutCharCall
    \/ BackspaceCall
    \/ ToTheRightCall
    \/ ToTheLeftCall
    \/ ToEndCall
    \/ ToHomeCall
    \/ ClearLineCall
    \/ ClearRightCall
    \/ ClearLeftCall
    \/ ToRightJumpCall
    \/ ToLeftJumpCall

\* the editing of one line: every Input operation but cr_lf, on lines of
\* up to MaxBuf characters
SpecEdit == Init /\ [][NextEdit]_vars

\* ---------------------------------------------------------------- submit
\* an Input that holds one of the lines, the cursor anywhere in it, next to
\* a new History
InitSubmit ==
    /\ values \in Cands
    /\ cursor \in 0..Len(values)
    /\ user_input = <<>>
    /\ hvalues = <<>>
    /\ hcursor = 0
    /\ temp = None
    /\ value = <<>>
    /\ ret = "none"
    /\ called = "new"
    /\ panicked = FALSE

\* cr_lf on a History in any state, the operation recorded in called
CrLfCall ==
    /\ ~panicked
    /\ Len(hvalues) < MaxHist
    /\ LET r == cr_lf(values, cursor, hvalues, hcursor, temp)
       IN  /\ values' = r.values
           /\ cursor' = r.cursor
           /\ user_input' = r.user_input
           /\ hvalues' = r.hvalues
           /\ hcursor' = r.hcursor
           /\ temp' = r.temp
           /\ panicked' = r.panic
    /\ called' = "cr_lf"
    /\ UNCHANGED <<value, ret>>

NextSubmit ==
    \/ EditValue
    \/ Prev
    \/ Next
    \/ Push
    \/ CrLfCall

\* the submit of a line after any recall session
SpecSubmit == InitSubmit /\ [][NextSubmit]_vars

\* ------------------------------------------------------------------ init
\* what the environment answers to the calls of init: raw-mode enabling,
\* the writes and the flush to the terminal, and, for each of the two log
\* files, File::create, create_dir_all and the second File::create
Outcomes ==
    [raw_ok : BOOLEAN, write_ok : BOOLEAN, flush_ok : BOOLEAN,
     input_create : BOOLEAN, input_mkdir : BOOLEAN, input_retry : BOOLEAN,
     history_create : BOOLEAN, history_mkdir : BOOLEAN,
     history_retry : BOOLEAN]

\* File::create(..).unwrap_or_else(|_| { create_dir_all(..).unwrap();
\* File::create(..).unwrap() }): TRUE when one of the unwraps panics
debug_log_panics(create_ok, mkdir_ok, retry_ok) ==
    ~create_ok /\ (~mkdir_ok \/ ~retry_ok)

\* Input::new; debug_logs is cfg(any(debug_assertions, feature = "debug_logs"))
Input_new(debug_logs, env) ==
    InputResult(<<>>, 0,
        debug_logs /\ debug_log_panics(env.input_create, env.input_mkdir,
                                       env.input_retry))

\* History::new
History_new(debug_logs, env) ==
    HistoryResult(<<>>, 0, None, <<>>, "none",
        debug_logs /\ debug_log_panics(env.history_create, env.history_mkdir,
                                       env.history_retry))

\* init: the results of enable_raw_mode, of the writes and of the flush are
\* discarded; Input::new runs before History::new
init(alt_screen, debug_logs, env) ==
    LET i == Input_new(debug_logs, env)
        h == History_new(debug_logs, env)
    IN  [values |-> i.values, cursor |-> i.cursor, user_input |-> <<>>,
         hvalues |-> h.values, hcursor |-> h.cursor, temp |-> h.temp,
         panic |-> i.panic \/ h.panic]

\* the program before it calls init
InitBoot ==
    /\ values = <<>>
    /\ cursor = 0
    /\ user_input = <<>>
    /\ hvalues = <<>>
    /\ hcursor = 0
    /\ temp = None
    /\ value = <<>>
    /\ ret = "none"
    /\ called = "start"
    /\ panicked = FALSE

InitCall ==
    /\ called = "start"
    /\ \E alt_screen \in BOOLEAN, debug_logs \in BOOLEAN, env \in Outcomes :
         LET r == init(alt_screen, debug_logs, env)
         IN  /\ values' = r.values
             /\ cursor' = r.cursor
             /\ user_input' = r.user_input
             /\ hvalues' = r.hvalues
             /\ hcursor' = r.hcursor
             /\ temp' = r.temp
             /\ panicked' = r.panic
    /\ called' = "init"
    /\ UNCHANGED <<value, ret>>

\* the editing that follows a call of init that returned
EditAfterInit == called # "start" /\ NextEdit

NextBoot ==
    \/ InitCall
    \/ EditAfterInit

\* the program from its start: init, then the editing of a line
SpecBoot == InitBoot /\ [][NextBoot]_vars

\* ================================================================= claims

\* C1: after any sequence of Input operations, 0 <= Input.cursor <=
\* len(Input.values), and no operation has panicked on an index out of
\* range or on a cursor underflow.
InputCursorInRange ==
    /\ ~panicked
    /\ 0 <= cursor
    /\ cursor <= Len(values)

\* a two-character line with the cursor brought back to its start, after a
\* line was submitted
InputCursorInRangeWitness ==
    /\ Len(values) >= 2
    /\ cursor = 0
    /\ hvalues # <<>>
    /\ ~panicked

\* C2: after any sequence of push, prev and next,
\* 0 <= History.cursor <= len(History.values).
HistoryCursorInRange ==
    /\ 0 <= hcursor
    /\ hcursor <= Len(hvalues)

\* prev has walked back to the oldest of at least two entries
HistoryCursorInRangeWitness ==
    /\ called = "prev"
    /\ ret = "true"
    /\ hcursor = 0
    /\ Len(hvalues) >= 2

\* C3: whenever History.cursor < len(History.values) the draft temp is
\* present, and next has not panicked on an absent draft.
DraftPresentWhileBrowsing ==
    /\ hcursor < Len(hvalues) => ~is_none(temp)
    /\ ~panicked

\* next has taken the draft on its step back to the live position
DraftPresentWhileBrowsingWitness ==
    /\ called = "next"
    /\ ret = "true"
    /\ hcursor = Len(hvalues)
    /\ value = unwrap(temp)

\* k calls of prev, then k calls of next, on the buffer of r; ok records
\* that every call returned true
RECURSIVE prev_times(_, _)
prev_times(r, k) ==
    IF k = 0 THEN r
    ELSE LET q == prev(r.values, r.cursor, r.temp, r.value)
         IN  prev_times([q EXCEPT !.ret = IF r.ret = "true" THEN q.ret ELSE r.ret,
                                  !.panic = r.panic \/ q.panic], k - 1)

RECURSIVE next_times(_, _)
next_times(r, k) ==
    IF k = 0 THEN r
    ELSE LET q == next(r.values, r.cursor, r.temp, r.value)
         IN  next_times([q EXCEPT !.ret = IF r.ret = "true" THEN q.ret ELSE r.ret,
                                  !.panic = r.panic \/ q.panic], k - 1)

RoundTrip(B, k) ==
    next_times(prev_times(
        HistoryResult(hvalues, hcursor, temp, B, "true", FALSE), k), k)

\* C4: from a History at the live position with any buffer B, k calls of
\* prev followed by k calls of next (1 <= k <= len(values)) all return
\* true, leave the buffer equal to B and the cursor at len(values).
DraftPreserved ==
    hcursor = Len(hvalues) =>
        \A B \in Cands : \A k \in 1..Len(hvalues) :
            LET r == RoundTrip(B, k)
            IN  /\ r.ret = "true"
                /\ ~r.panic
                /\ r.value = B
                /\ r.cursor = Len(hvalues)
                /\ r.values = hvalues

\* a round trip has ended at the live position of a History of two entries,
\* the draft of that trip still in temp, and the buffer edited since
DraftPreservedWitness ==
    /\ hcursor = Len(hvalues)
    /\ Len(hvalues) >= 2
    /\ ~is_none(temp)
    /\ called = "edit"
    /\ value # unwrap(temp)

\* C5: the entries of History.values are pairwise distinct.
NoDuplicateEntries ==
    \A i, j \in 1..Len(hvalues) : i # j => hvalues[i] # hvalues[j]

\* the line just pushed was already the first of two entries
NoDuplicateEntriesWitness ==
    /\ called = "push"
    /\ Len(hvalues) >= 2
    /\ hvalues[1] = value

\* char::is_whitespace on the characters of the model
IsWhitespace(c) == c \in {" ", "\t"}

\* C6 as stated: no entry of History.values is empty or made only of
\* whitespace characters (spaces, tabs).
NoBlankEntry ==
    \A i \in 1..Len(hvalues) :
        \E j \in 1..Len(hvalues[i]) : ~IsWhitespace(hvalues[i][j])

\* C6 as amended: no entry of History.values is empty or made only of
\* space characters; an entry of other whitespace, such as a tab, is kept.
NoSpaceOnlyEntry ==
    \A i \in 1..Len(hvalues) :
        \E j \in 1..Len(hvalues[i]) : hvalues[i][j] # " "

\* a run of spaces was pushed onto a History that holds a tab line, and
\* was not added
NoSpaceOnlyEntryWitness ==
    /\ called = "push"
    /\ value = <<" ", " ">>
    /\ contains(hvalues, <<"\t">>)
    /\ ~contains(hvalues, value)

\* C7: every push leaves temp absent and cursor == len(values), whether
\* or not the candidate was added.
PushResets ==
    called = "push" => /\ is_none(temp)
                       /\ hcursor = Len(hvalues)

\* a push of a line of spaces, which was not added to the two entries
PushResetsWitness ==
    /\ called = "push"
    /\ value = <<" ">>
    /\ Len(hvalues) >= 2
    /\ is_none(temp)

\* C8 as stated: temp present implies cursor < len(values).
TempOnlyWhileBrowsing ==
    ~is_none(temp) => hcursor < Len(hvalues)

\* C8 as amended: temp becomes present only on a step that enters
\* browsing (it ends with cursor < len(values)), and once present it is
\* cleared by nothing but a push: it stays present when next returns to
\* the live position.
TempSetOnlyByBrowsing ==
    [][/\ (is_none(temp) /\ ~is_none(temp')) => hcursor' < Len(hvalues')
       /\ (~is_none(temp) /\ is_none(temp')) => called' = "push"]_vars

\* next is back at the live position and the draft is still present
TempSetOnlyByBrowsingWitness ==
    /\ called = "next"
    /\ ret = "true"
    /\ hcursor = Len(hvalues)
    /\ ~is_none(temp)
    /\ Len(hvalues) >= 2

\* C9: prev called with cursor == 0 and next called with cursor ==
\* len(values) return false and leave values, cursor, temp and the
\* caller's buffer unchanged.
BoundaryRecallFails ==
    [][/\ (called' = "prev" /\ hcursor = 0) =>
              /\ ret' = "false"
              /\ UNCHANGED <<hvalues, hcursor, temp, value, panicked>>
       /\ (called' = "next" /\ hcursor = Len(hvalues)) =>
              /\ ret' = "false"
              /\ UNCHANGED <<hvalues, hcursor, temp, value, panicked>>]_vars

\* prev has failed at the oldest of two entries, while browsing
BoundaryRecallFailsWitness ==
    /\ called = "prev"
    /\ ret = "false"
    /\ hcursor = 0
    /\ Len(hvalues) >= 2
    /\ ~is_none(temp)

\* s is a prefix of t
IsPrefix(s, t) ==
    /\ Len(s) <= Len(t)
    /\ SubSeq(t, 1, Len(s)) = s

\* C10: prev and next never change History.values, and every push leaves
\* the previous values as a prefix of the new values, with at most one
\* entry appended.
ValuesOnlyGrow ==
    [][/\ IsPrefix(hvalues, hvalues')
       /\ Len(hvalues') <= Len(hvalues) + 1
       /\ called' \in {"prev", "next"} => hvalues' = hvalues]_vars

\* a push has appended its line as the third entry
ValuesOnlyGrowWitness ==
    /\ called = "push"
    /\ Len(hvalues) >= 3
    /\ hvalues[Len(hvalues)] = value

\* the lines of at most n characters
Lines(n) == UNION {[1..k -> Chars] : k \in 0..n}

\* put_char of the characters of s, one at a time, from the Input r
RECURSIVE put_chars(_, _)
put_chars(r, s) ==
    IF s = <<>> THEN r
    ELSE LET q == put_char(r.values, r.cursor, Head(s))
         IN  put_chars([q EXCEPT !.panic = r.panic \/ q.panic], Tail(s))

\* C11: put_char(c) at cursor k yields values = old[0..k) ++ [c] ++
\* old[k..) and cursor = k + 1; typing a line into an empty Input yields
\* that line with the cursor at its end.
PutCharInserts ==
    /\ \A c \in Chars :
         LET r == put_char(values, cursor, c)
         IN  /\ r.values = SubSeq(values, 1, cursor) \o <<c>>
                             \o SubSeq(values, cursor + 1, Len(values))
             /\ r.cursor = cursor + 1
             /\ ~r.panic
    /\ \A s \in Lines(MaxBuf) :
         put_chars(InputResult(<<>>, 0, FALSE), s)
             = InputResult(s, Len(s), FALSE)

\* put_char has inserted between two characters of the line
PutCharInsertsWitness ==
    /\ called = "put_char"
    /\ cursor > 1
    /\ cursor < Len(values)

\* C12: backspace changes nothing when the buffer is empty or cursor == 0;
\* otherwise, at cursor k, values = old[0..k-1) ++ old[k..) and
\* cursor = k - 1.
BackspaceRemovesLeft ==
    [][called' = "backspace" =>
         /\ ~panicked'
         /\ IF values = <<>> \/ cursor = 0
            THEN values' = values /\ cursor' = cursor
            ELSE /\ values' = SubSeq(values, 1, cursor - 1)
                                \o SubSeq(values, cursor + 1, Len(values))
                 /\ cursor' = cursor - 1]_vars

\* backspace has removed a character from the middle of the line
BackspaceRemovesLeftWitness ==
    /\ called = "backspace"
    /\ cursor >= 1
    /\ cursor < Len(values)

\* C14: clear_right at cursor k yields values = old[0..k) and leaves
\* cursor == k, the end of the buffer.
ClearRightTruncates ==
    [][called' = "clear_right" =>
         /\ ~panicked'
         /\ values' = SubSeq(values, 1, cursor)
         /\ cursor' = cursor
         /\ cursor' = Len(values')]_vars

\* clear_right has left a line of two characters, the cursor at its end
ClearRightTruncatesWitness ==
    /\ called = "clear_right"
    /\ Len(values) = 2
    /\ cursor = 2

\* C15: clear_left at cursor k yields values = old[k..) and cursor == 0.
ClearLeftKeepsRight ==
    [][called' = "clear_left" =>
         /\ ~panicked'
         /\ values' = SubSeq(values, cursor + 1, Len(values))
         /\ cursor' = 0]_vars

\* clear_left has left a line of two characters, the cursor at its start
ClearLeftKeepsRightWitness ==
    /\ called = "clear_left"
    /\ Len(values) = 2
    /\ cursor = 0

\* C13: cr_lf on contents V sets user_input to the string of V, leaves
\* the Input empty with cursor 0, and pushes V: afterwards History.cursor ==
\* len(History.values), temp is absent, and V is an entry of History.values
\* whenever V has a character that is not a space.
CrLfSubmits ==
    [][called' = "cr_lf" =>
         /\ ~panicked'
         /\ Len(user_input') = Len(values)
         /\ \A i \in 1..Len(values) : user_input'[i] = CodePoint(values[i])
         /\ values' = <<>>
         /\ cursor' = 0
         /\ hcursor' = Len(hvalues')
         /\ is_none(temp')
         /\ (\E i \in 1..Len(values) : values[i] # " ")
                => contains(hvalues', values)]_vars

\* cr_lf has submitted a line as the second entry of a History, right
\* after a recall that put the first entry into the caller's buffer
CrLfSubmitsWitness ==
    /\ called = "cr_lf"
    /\ ret = "true"
    /\ Len(hvalues) = 2
    /\ user_input # <<>>
    /\ hvalues[2] # value
    /\ value = hvalues[1]
    /\ values = <<>>

\* C16: init does not return an error and never panics, whatever the
\* environment answers to its calls, the creation of the diagnostic log
\* files and of their directory included.
InitNeverPanics ==
    called = "init" => ~panicked

\* C17: after to_right_jump or to_left_jump the cursor is 0, or
\* len(values), or values[cursor] is a stopper: a jump never lands
\* mid-word.
JumpLandsOnBoundary ==
    called \in {"to_right_jump", "to_left_jump"} =>
        \/ cursor = 0
        \/ cursor = Len(values)
        \/ values[cursor + 1] \in STOPPERS

\* a right jump has stopped on a stopper inside the line, after a word of
\* two characters
JumpLandsOnBoundaryWitness ==
    /\ called = "to_right_jump"
    /\ cursor = 2
    /\ Len(values) > 2
    /\ values[1] \notin STOPPERS
    /\ values[2] \notin STOPPERS
    /\ values[3] \in STOPPERS

\* C18 as stated: to_left_jump, called with cursor > 0 and a character
\* other than the space left of the cursor, ends with cursor == 0 or with
\* values[cursor] the first character of the word: not a stopper, its left
\* neighbour a stopper.
LeftJumpLandsOnWordStart ==
    [][(called' = "to_left_jump" /\ cursor > 0 /\ values[cursor] # " ") =>
         \/ cursor' = 0
         \/ /\ values'[cursor' + 1] \notin STOPPERS
            /\ values'[cursor'] \in STOPPERS]_vars

\* C18 as amended: such a to_left_jump ends with cursor == 0 or with
\* values[cursor] a stopper, and no character strictly between the new and
\* the old cursor is a stopper: it lands on the stopper before the word,
\* not on the first character of the word.
LeftJumpLandsOnStopper ==
    [][(called' = "to_left_jump" /\ cursor > 0 /\ values[cursor] # " ") =>
         /\ ~panicked'
         /\ values' = values
         /\ cursor' < cursor
         /\ cursor' = 0 \/ values[cursor' + 1] \in STOPPERS
         /\ \A i \in (cursor' + 1)..(cursor - 1) :
                values[i + 1] \notin STOPPERS]_vars

\* a left jump from the end of a word of two characters has landed on the
\* stopper before it
LeftJumpLandsOnStopperWitness ==
    /\ called = "to_left_jump"
    /\ cursor = 1
    /\ Len(values) = 4
    /\ values[2] = "-"
    /\ values[3] \notin STOPPERS
    /\ values[4] \notin STOPPERS

\* C19: to_right_jump strictly increases the cursor whenever
\* cursor < len(values), so that repeating it reaches the end of every
\* buffer.
RightJumpProgress ==
    [][(called' = "to_right_jump" /\ cursor < Len(values)) =>
         cursor' > cursor]_vars

====
